---------------------------- MODULE Spec2Model ----------------------------
(***************************************************************************)
(* Recursive 3D shadowcasting (display.rs): the occlusion volume, the      *)
(* sector driver set_origin_and_recompute, the recursive caster cast_light *)
(* with its slope projection, the cube-face growth get_cube_occlusion and  *)
(* the rectangle set difference rectangle_minus_rectangles.                *)
(*                                                                         *)
(* f32 values are modelled as exact rationals <<n, d>> (d > 0, lowest      *)
(* terms) extended with +inf = <<1, 0>>, -inf = <<-1, 0>> and NaN =        *)
(* <<0, 0>>.  Rounding is not modelled; the sign of a zero is not kept (a  *)
(* zero divisor is the +0.0 that x - x yields).                            *)
(***************************************************************************)
EXTENDS Integers, Sequences, FiniteSets, TLC

VARIABLES
    occluded,       \* Display.occluded: the set of indices holding true
    origin,         \* Display.origin (Vector3i)
    origin_float,   \* Display.origin_float (Vector3)
    pc,             \* "idle", or "recompute" inside set_origin_and_recompute
    sector,         \* position of the driver's three nested loops (0..24)
    phase,          \* which of the two cast_light calls of the loop body is next
    stack,          \* pending cast_light invocations, innermost first
    drawn,          \* debug rectangles handed to draw_debug_rect_*
    errors,         \* godot_script_error! reports
    visible,        \* watched cells the scan loop visited unoccluded (line 383)
    launched,       \* top-level cast_light calls of the current pass, in order
    lastOp,         \* the last operation and what it was given
    prevPass,       \* the pass completed before the last one
    lastPass,       \* the last completed pass
    script,         \* what the owning application may mark and where it may stand
    ops,            \* operations called so far
    rV, rOs, rRes   \* rectangle_minus_rectangles: argument, list, result

vars == <<occluded, origin, origin_float, pc, sector, phase, stack, drawn,
          errors, visible, launched, lastOp, prevPass, lastPass, script, ops,
          rV, rOs, rRes>>

castVars == <<occluded, origin, origin_float, pc, sector, phase, stack, drawn,
              errors, visible, launched, lastOp, prevPass, lastPass, script, ops>>

rectVars == <<rV, rOs, rRes>>

---------------------------------------------------------------------------
(* f32 arithmetic *)

INFINITY == <<1, 0>>
NEG_INFINITY == <<-1, 0>>
NaN == <<0, 0>>

Abs(i) == IF i < 0 THEN -i ELSE i

Sign(i) == IF i < 0 THEN -1 ELSE IF i > 0 THEN 1 ELSE 0

RECURSIVE Gcd(_, _)
Gcd(a, b) == IF b = 0 THEN a ELSE Gcd(b, a % b)

\* the rational n/d (d # 0) in lowest terms with a positive denominator
Ratio(n, d) ==
    LET g == Gcd(Abs(n), Abs(d))
        s == Sign(d)
    IN  <<(s * n) \div g, (s * d) \div g>>

F(i) == <<i, 1>>

HALF == <<1, 2>>

is_finite(a) == a[2] # 0

IsNaN(a) == a = NaN

FNeg(a) == <<-a[1], a[2]>>

FAdd(a, b) ==
    IF is_finite(a) /\ is_finite(b)
    THEN Ratio(a[1] * b[2] + b[1] * a[2], a[2] * b[2])
    ELSE IF IsNaN(a) \/ IsNaN(b) THEN NaN
    ELSE IF is_finite(a) THEN b
    ELSE IF is_finite(b) THEN a
    ELSE IF a = b THEN a ELSE NaN

FSub(a, b) == FAdd(a, FNeg(b))

FDiv(a, b) ==
    IF IsNaN(a) \/ IsNaN(b) THEN NaN
    ELSE IF is_finite(a) /\ is_finite(b)
    THEN IF b[1] # 0 THEN Ratio(a[1] * b[2], a[2] * b[1])
         ELSE IF a[1] = 0 THEN NaN
         ELSE <<Sign(a[1]), 0>>
    ELSE IF is_finite(a) THEN F(0)
    ELSE IF is_finite(b) THEN <<a[1] * (IF b[1] < 0 THEN -1 ELSE 1), 0>>
    ELSE NaN

FLt(a, b) ==
    IF IsNaN(a) \/ IsNaN(b) THEN FALSE
    ELSE IF is_finite(a) /\ is_finite(b) THEN a[1] * b[2] < b[1] * a[2]
    ELSE IF is_finite(a) THEN b = INFINITY
    ELSE IF is_finite(b) THEN a = NEG_INFINITY
    ELSE a = NEG_INFINITY /\ b = INFINITY

FGt(a, b) == FLt(b, a)

FMax(a, b) == IF IsNaN(a) THEN b ELSE IF FLt(a, b) THEN b ELSE a

FMin(a, b) == IF IsNaN(a) THEN b ELSE IF FLt(b, a) THEN b ELSE a

\* usize::MAX and every index an i32 below zero wraps to: past every dimension
USIZE_MAX == 2147483646

\* f32::floor() as usize: the cast saturates (NaN and negatives give 0)
FloorAsUsize(a) ==
    IF IsNaN(a) \/ a = NEG_INFINITY THEN 0
    ELSE IF a = INFINITY THEN USIZE_MAX
    ELSE IF a[1] < 0 THEN 0 ELSE a[1] \div a[2]

\* f32::ceil() as usize
CeilAsUsize(a) ==
    IF IsNaN(a) \/ a = NEG_INFINITY THEN 0
    ELSE IF a = INFINITY THEN USIZE_MAX
    ELSE IF a[1] <= 0 THEN 0 ELSE -((-a[1]) \div a[2])

\* i32 as usize: a negative value wraps to an index past every dimension
I32AsUsize(i) == IF i < 0 THEN USIZE_MAX ELSE i

\* Vector3::cast_int: each component truncated toward zero
TruncToInt(a) == IF a[1] < 0 THEN -((-a[1]) \div a[2]) ELSE a[1] \div a[2]

cast_int(v) == <<TruncToInt(v[1]), TruncToInt(v[2]), TruncToInt(v[3])>>

cast_float(v) == <<F(v[1]), F(v[2]), F(v[3])>>

---------------------------------------------------------------------------
(* Rect *)

Rect(sx, sy, ex, ey) == [sx |-> sx, sy |-> sy, ex |-> ex, ey |-> ey]

RECT_ZERO == Rect(F(0), F(0), F(0), F(0))

is_valid(r) == FLt(r.sx, r.ex) /\ FLt(r.sy, r.ey)

intersects(a, b) ==
    FLt(a.sx, b.ex) /\ FGt(a.ex, b.sx) /\ FLt(a.sy, b.ey) /\ FGt(a.ey, b.sy)

\* Option<Rect>: <<>> is None, <<r>> is Some(r)
intersection(a, b) ==
    IF ~intersects(a, b) THEN <<>>
    ELSE LET result == Rect(FMax(a.sx, b.sx), FMax(a.sy, b.sy),
                            FMin(a.ex, b.ex), FMin(a.ey, b.ey))
         IN  IF is_valid(result) THEN <<result>> ELSE <<>>

swap_start_and_end(r) == Rect(r.ex, r.ey, r.sx, r.sy)

RectAdd(a, b) ==
    Rect(FAdd(a.sx, b.sx), FAdd(a.sy, b.sy), FAdd(a.ex, b.ex), FAdd(a.ey, b.ey))

RectSub(a, b) ==
    Rect(FSub(a.sx, b.sx), FSub(a.sy, b.sy), FSub(a.ex, b.ex), FSub(a.ey, b.ey))

---------------------------------------------------------------------------
(* rectangle_minus_rectangles *)

\* the four candidate pieces of rect around its intersection, in push order
Splits_full_width_strips(rect, i) ==
    (IF FLt(rect.sx, i.sx) THEN <<Rect(rect.sx, rect.sy, i.sx, rect.ey)>> ELSE <<>>)
    \o (IF FLt(i.ex, rect.ex) THEN <<Rect(i.ex, rect.sy, rect.ex, rect.ey)>> ELSE <<>>)
    \o (IF FLt(rect.sy, i.sy) THEN <<Rect(rect.sx, rect.sy, rect.ex, i.sy)>> ELSE <<>>)
    \o (IF FLt(i.ey, rect.ey) THEN <<Rect(rect.sx, i.ey, rect.ex, rect.ey)>> ELSE <<>>)

Splits(rect, i) ==
    (IF FLt(rect.sx, i.sx) THEN <<Rect(rect.sx, rect.sy, i.sx, rect.ey)>> ELSE <<>>)
    \o (IF FLt(i.ex, rect.ex) THEN <<Rect(i.ex, rect.sy, rect.ex, rect.ey)>> ELSE <<>>)
    \o (IF FLt(rect.sy, i.sy) THEN <<Rect(i.sx, rect.sy, i.ex, i.sy)>> ELSE <<>>)
    \o (IF FLt(i.ey, rect.ey) THEN <<Rect(i.sx, i.ey, i.ex, rect.ey)>> ELSE <<>>)

\* one rectangle of the working set against one subtracted rectangle
SplitAround(rect, subtract_rect) ==
    LET i == intersection(rect, subtract_rect)
    IN  IF i # <<>> THEN SelectSeq(Splits(rect, i[1]), is_valid) ELSE <<rect>>

RECURSIVE SubtractOne(_, _)
SubtractOne(result, subtract_rect) ==
    IF result = <<>> THEN <<>>
    ELSE SplitAround(Head(result), subtract_rect)
         \o SubtractOne(Tail(result), subtract_rect)

RECURSIVE SubtractAll(_, _)
SubtractAll(result, rectangles) ==
    IF rectangles = <<>> THEN result
    ELSE SubtractAll(SubtractOne(result, Head(rectangles)), Tail(rectangles))

rectangle_minus_rectangles(rectangle, rectangles) ==
    SubtractAll(<<rectangle>>, rectangles)

---------------------------------------------------------------------------
(* Display: constants and the occlusion volume *)

MAX_DEPTH == 15

\* Array3::from_elem((100, 100, 100), false)
VOLUME_DIM == 100

UnitPlane3d == {"XY", "ZY", "ZX"}

\* Array3::get / get_mut: Some only when every index is below its dimension
InBounds(index) ==
    /\ index[1] >= 0 /\ index[1] < VOLUME_DIM
    /\ index[2] >= 0 /\ index[2] < VOLUME_DIM
    /\ index[3] >= 0 /\ index[3] < VOLUME_DIM

\* display.occluded.get(index).is_some_and(|occluded| *occluded)
IsOccluded(occ, index) == InBounds(index) /\ index \in occ

\* let index = (pos.x as usize, pos.y as usize, pos.z as usize)
MarkIndex_abs(pos) == <<Abs(pos[1]), Abs(pos[2]), Abs(pos[3])>>

MarkIndex(pos) == <<I32AsUsize(pos[1]), I32AsUsize(pos[2]), I32AsUsize(pos[3])>>

---------------------------------------------------------------------------
(* get_cube_occlusion *)

ZHalfOffset(reverse_z) == IF reverse_z THEN HALF ELSE FNeg(HALF)

get_cube_occlusion(x, y, z, o, slope_rect, reverse_z) ==
    LET z_half_offset == ZHalfOffset(reverse_z)
        base_occluded == Rect(FSub(x, HALF), FSub(y, HALF), FAdd(x, HALF), FAdd(y, HALF))
        den == FSub(z, z_half_offset)
        extra ==
            [sx |-> IF FGt(slope_rect.ex, F(0)) /\ is_finite(slope_rect.ex)
                    THEN FDiv(FSub(FAdd(x, z_half_offset), o[1]), den) ELSE F(0),
             sy |-> IF FGt(slope_rect.ey, F(0)) /\ is_finite(slope_rect.ey)
                    THEN FDiv(FSub(FAdd(y, z_half_offset), o[2]), den) ELSE F(0),
             ex |-> IF FLt(slope_rect.sx, F(0)) /\ is_finite(slope_rect.sx)
                    THEN FDiv(FSub(FSub(x, z_half_offset), o[1]), den) ELSE F(0),
             ey |-> IF FLt(slope_rect.sy, F(0)) /\ is_finite(slope_rect.sy)
                    THEN FDiv(FSub(FSub(y, z_half_offset), o[2]), den) ELSE F(0)]
    IN  IF reverse_z THEN RectAdd(base_occluded, swap_start_and_end(extra))
        ELSE RectSub(base_occluded, extra)

---------------------------------------------------------------------------
(* cast_light *)

Frame(slope_rect, depth, draw_debug, reverse_z, plane) ==
    [slope_rect |-> slope_rect, depth |-> depth, draw_debug |-> draw_debug,
     reverse_z |-> reverse_z, plane |-> plane]

\* let origin = match plane { ... }
PlaneOrigin(plane, o) ==
    CASE plane = "XY" -> o
      [] plane = "ZY" -> <<o[3], o[2], o[1]>>
      [] plane = "ZX" -> <<o[3], o[1], o[2]>>

\* let z = match reverse_z { true => -(depth as i32), false => depth as i32 }
DepthZ(depth, reverse_z) == IF reverse_z THEN -depth ELSE depth

\* z_f32 + z_half_offset
PlaneZ(depth, reverse_z) == FAdd(F(DepthZ(depth, reverse_z)), ZHalfOffset(reverse_z))

ViewRect(slope_rect, depth, reverse_z, of) ==
    LET n == PlaneZ(depth, reverse_z)
        px(s) == FAdd(FDiv(n, s), of[1])
        py(s) == FAdd(FDiv(n, s), of[2])
    IN  IF reverse_z
        THEN Rect(px(slope_rect.ex), py(slope_rect.ey), px(slope_rect.sx), py(slope_rect.sy))
        ELSE Rect(px(slope_rect.sx), py(slope_rect.sy), px(slope_rect.ex), py(slope_rect.ey))

\* s_ix / s_iy: floor, then one less unless already 0
ScanStart(a) == LET s == FloorAsUsize(a) IN IF s > 0 THEN s - 1 ELSE s

\* e_ix / e_iy: the exclusive end of the range
ScanEnd(a) == CeilAsUsize(a) + 1

\* the index ranges s_ix..e_ix and s_iy..e_iy of the scan loop
ScanRange(view_rect) ==
    [s_ix |-> ScanStart(view_rect.sx), s_iy |-> ScanStart(view_rect.sy),
     e_ix |-> ScanEnd(view_rect.ex), e_iy |-> ScanEnd(view_rect.ey)]

\* for x in s_ix..e_ix { for y in s_iy..e_iy { ... } }, in visiting order
ScanCells(r) ==
    LET w == IF r.e_ix > r.s_ix THEN r.e_ix - r.s_ix ELSE 0
        h == IF r.e_iy > r.s_iy THEN r.e_iy - r.s_iy ELSE 0
    IN  [i \in 1..(w * h) |-> <<r.s_ix + ((i - 1) \div h), r.s_iy + ((i - 1) % h)>>]

\* (x_check, y_check, z_check) of the scan loop
CheckIndex(plane, x, y, zc) ==
    CASE plane = "XY" -> <<x, y, zc>>
      [] plane = "ZY" -> <<zc, y, x>>
      [] plane = "ZX" -> <<y, zc, x>>

\* (z + origin.z) as usize
LayerIndex_no_origin(depth, reverse_z, o) == I32AsUsize(DepthZ(depth, reverse_z))

LayerIndex(depth, reverse_z, o) == I32AsUsize(DepthZ(depth, reverse_z) + o[3])

\* one remainder rectangle back to slopes
NewSlopeRect_inverted(rect, depth, reverse_z, of) ==
    LET n == PlaneZ(depth, reverse_z)
        qx(c) == FDiv(FSub(c, of[1]), n)
        qy(c) == FDiv(FSub(c, of[2]), n)
    IN  IF reverse_z
        THEN Rect(qx(rect.ex), qy(rect.ey), qx(rect.sx), qy(rect.sy))
        ELSE Rect(qx(rect.sx), qy(rect.sy), qx(rect.ex), qy(rect.ey))

NewSlopeRect(rect, depth, reverse_z, of) ==
    LET n == PlaneZ(depth, reverse_z)
        qx(c) == FDiv(n, FSub(c, of[1]))
        qy(c) == FDiv(n, FSub(c, of[2]))
    IN  IF reverse_z
        THEN Rect(qx(rect.ex), qy(rect.ey), qx(rect.sx), qy(rect.sy))
        ELSE Rect(qx(rect.sx), qy(rect.sy), qx(rect.ex), qy(rect.ey))

\* the recursive call's arguments
ChildFrame_other_direction(f, new_slope_rect) ==
    Frame(new_slope_rect, f.depth + 1, f.draw_debug, ~f.reverse_z, f.plane)

ChildFrame(f, new_slope_rect) ==
    Frame(new_slope_rect, f.depth + 1, f.draw_debug, f.reverse_z, f.plane)

\* if depth > MAX_DEPTH { return; }
DepthExceeded_off_by_one(depth) == depth > MAX_DEPTH + 1

DepthExceeded(depth) == depth > MAX_DEPTH

\* everything one invocation of cast_light computes past the depth guard
CastBody(occ, org, watch, f) ==
    LET o == PlaneOrigin(f.plane, org)
        of == cast_float(o)
        zc == LayerIndex(f.depth, f.reverse_z, o)
        z_f32 == F(DepthZ(f.depth, f.reverse_z))
        view_rect == ViewRect(f.slope_rect, f.depth, f.reverse_z, of)
        range == ScanRange(view_rect)
        cells == ScanCells(range)
        visited == {CheckIndex(f.plane, cells[i][1], cells[i][2], zc) : i \in 1..Len(cells)}
        hit(c) == IsOccluded(occ, CheckIndex(f.plane, c[1], c[2], zc))
        blockers == SelectSeq(cells, hit)
        occluding_rectangles ==
            [i \in 1..Len(blockers) |->
                get_cube_occlusion(F(blockers[i][1]), F(blockers[i][2]), z_f32,
                                   of, f.slope_rect, f.reverse_z)]
        unblocked == rectangle_minus_rectangles(view_rect, occluding_rectangles)
    IN  [view_rect |-> view_rect,
         range |-> range,
         occluding_rectangles |-> occluding_rectangles,
         unblocked |-> unblocked,
         children |-> [i \in 1..Len(unblocked) |->
                          ChildFrame(f, NewSlopeRect(unblocked[i], f.depth, f.reverse_z, of))],
         seen |-> {c \in visited \cap watch : ~IsOccluded(occ, c)}]

---------------------------------------------------------------------------
(* set_origin_and_recompute: the sector driver *)

\* for initial_slope_rect in [ ... ]
InitialSlopeRects ==
    <<Rect(INFINITY, INFINITY, F(1), F(1)),
      Rect(F(-1), INFINITY, INFINITY, F(1)),
      Rect(INFINITY, F(-1), F(1), INFINITY),
      Rect(F(-1), F(-1), INFINITY, INFINITY)>>

\* for reverse_z in [false, true]
ReverseZs == <<FALSE, TRUE>>

\* for plane in [UnitPlane3d::XY, UnitPlane3d::ZX, UnitPlane3d::ZY]
Planes == <<"XY", "ZX", "ZY">>

SectorCount == Len(InitialSlopeRects) * Len(ReverseZs) * Len(Planes)

\* the loop variables of iteration k (0-based) of the three nested loops
SectorSlope(k) == InitialSlopeRects[1 + (k \div (Len(ReverseZs) * Len(Planes)))]

SectorReverse(k) == ReverseZs[1 + ((k \div Len(Planes)) % Len(ReverseZs))]

SectorPlane(k) == Planes[1 + (k % Len(Planes))]

\* the two calls of the loop body: profiled (draw_debug false), then visualised
TopFrame_depth_zero(k, ph) ==
    Frame(SectorSlope(k), 0, ph = 1, SectorReverse(k), SectorPlane(k))

TopFrame(k, ph) ==
    Frame(SectorSlope(k), 1, ph = 1, SectorReverse(k), SectorPlane(k))

---------------------------------------------------------------------------
(* Bounds of the exploration *)

\* operations (marks and recomputations) the owning application calls
MaxOps == 3

NoPass == [n |-> 0, origin |-> <<0, 0, 0>>, occluded |-> {}, visible |-> {}]

\* the 26 cells at Chebyshev distance 1 from c
Shell(c) ==
    {<<c[1] + dx, c[2] + dy, c[3] + dz>> :
        dx \in {-1, 0, 1}, dy \in {-1, 0, 1}, dz \in {-1, 0, 1}} \ {c}

Box(lo, hi) == {<<x, y, z>> : x \in lo..hi, y \in lo..hi, z \in lo..hi}

\* volumes the application has built with set_occluded, what it does next
\* (the cells it marks, the origins it stands at) and the cells whose
\* visibility it watches
Scenarios ==
    { [occluded |-> Shell(<<1, 1, 1>>),
       marks |-> {<<-1, 1, 1>>, <<1, VOLUME_DIM, 1>>, <<3, 3, 3>>},
       origins |-> {<<<<3, 2>>, <<3, 2>>, <<3, 2>>>>},
       watch |-> Box(0, 3)],
      [occluded |-> {},
       marks |-> {<<1, 1, 2>>},
       origins |-> {<<F(1), F(1), F(1)>>},
       watch |-> Box(0, 3)],
      [occluded |-> {<<5, 6, 6>>},
       marks |-> {<<3, 0, 3>>},
       origins |-> {<<F(0), F(0), F(0)>>},
       watch |-> {<<0, 0, 0>>} \cup {<<x, y, 9>> : x \in 6..8, y \in 8..9}] }

---------------------------------------------------------------------------
(* The state machine *)

Init ==
    /\ \E sc \in Scenarios :
          /\ occluded = sc.occluded
          /\ script = [marks |-> sc.marks, origins |-> sc.origins, watch |-> sc.watch]
    /\ origin = <<0, 0, 0>>
    /\ origin_float = <<F(0), F(0), F(0)>>
    /\ pc = "idle"
    /\ sector = 0
    /\ phase = 0
    /\ stack = <<>>
    /\ drawn = 0
    /\ errors = 0
    /\ visible = {}
    /\ launched = <<>>
    /\ lastOp = [op |-> "init"]
    /\ prevPass = NoPass
    /\ lastPass = NoPass
    /\ ops = 0
    /\ rV = RECT_ZERO
    /\ rOs = <<>>
    /\ rRes = <<>>

\* pub fn set_occluded(&mut self, pos: Vector3i)
set_occluded(pos) ==
    /\ pc = "idle"
    /\ ops < MaxOps
    /\ LET index == MarkIndex(pos)
       IN  IF InBounds(index)
           THEN /\ occluded' = occluded \cup {index}
                /\ errors' = errors
           ELSE /\ occluded' = occluded
                /\ errors' = errors + 1
    /\ lastOp' = [op |-> "set_occluded", pos |-> pos]
    /\ ops' = ops + 1
    /\ UNCHANGED <<origin, origin_float, pc, sector, phase, stack, drawn, visible,
                   launched, prevPass, lastPass, script>>
    /\ UNCHANGED rectVars

\* pub fn set_origin_and_recompute(&mut self, origin: Vector3): entry
set_origin_and_recompute(o) ==
    /\ pc = "idle"
    /\ ops < MaxOps
    /\ origin' = cast_int(o)
    /\ origin_float' = o
    /\ pc' = "recompute"
    /\ sector' = 0
    /\ phase' = 0
    /\ stack' = <<>>
    /\ visible' = {}
    /\ launched' = <<>>
    /\ lastOp' = [op |-> "set_origin_and_recompute", origin |-> o]
    /\ ops' = ops + 1
    /\ UNCHANGED <<occluded, drawn, errors, prevPass, lastPass, script>>
    /\ UNCHANGED rectVars

\* the loop body's next call of cast_light(self, &initial_slope_rect, 1, ...)
Launch ==
    /\ pc = "recompute"
    /\ stack = <<>>
    /\ sector < SectorCount
    /\ stack' = <<TopFrame(sector, phase)>>
    /\ launched' = Append(launched, TopFrame(sector, phase))
    /\ phase' = 1 - phase
    /\ sector' = IF phase = 1 THEN sector + 1 ELSE sector
    /\ lastOp' = [op |-> "launch", frame |-> TopFrame(sector, phase)]
    /\ UNCHANGED <<occluded, origin, origin_float, pc, drawn, errors, visible,
                   prevPass, lastPass, script, ops>>
    /\ UNCHANGED rectVars

\* one invocation of cast_light: the innermost pending call runs
cast_light ==
    /\ pc = "recompute"
    /\ stack # <<>>
    /\ LET f == Head(stack)
       IN  IF DepthExceeded(f.depth)
           THEN /\ stack' = Tail(stack)
                /\ lastOp' = [op |-> "cast_light", frame |-> f, scanned |-> FALSE]
                /\ UNCHANGED <<visible, drawn>>
           ELSE LET b == CastBody(occluded, origin, script.watch, f)
                IN  /\ stack' = b.children \o Tail(stack)
                    /\ visible' = visible \cup b.seen
                    /\ drawn' = drawn + (IF f.draw_debug
                                         THEN 1 + Len(b.occluding_rectangles) ELSE 0)
                    /\ lastOp' = [op |-> "cast_light", frame |-> f, scanned |-> TRUE,
                                  view_rect |-> b.view_rect, range |-> b.range,
                                  occluding_rectangles |-> b.occluding_rectangles,
                                  unblocked |-> b.unblocked, children |-> b.children]
    /\ UNCHANGED <<occluded, origin, origin_float, pc, sector, phase, errors,
                   launched, prevPass, lastPass, script, ops>>
    /\ UNCHANGED rectVars

\* set_origin_and_recompute returns once the loops are through
Return ==
    /\ pc = "recompute"
    /\ stack = <<>>
    /\ sector = SectorCount
    /\ pc' = "idle"
    /\ prevPass' = lastPass
    /\ lastPass' = [n |-> lastPass.n + 1, origin |-> origin, occluded |-> occluded,
                    visible |-> visible]
    /\ lastOp' = [op |-> "return"]
    /\ UNCHANGED <<occluded, origin, origin_float, sector, phase, stack, drawn, errors,
                   visible, launched, script, ops>>
    /\ UNCHANGED rectVars

Next ==
    \/ \E pos \in script.marks : set_occluded(pos)
    \/ \E o \in script.origins : set_origin_and_recompute(o)
    \/ Launch
    \/ cast_light
    \/ Return

Spec == Init /\ [][Next]_vars

---------------------------------------------------------------------------
(* Vocabulary of the properties *)

\* the invocations of cast_light still to run
Pending == {stack[i] : i \in 1..Len(stack)}

CastRan == lastOp.op = "cast_light" /\ lastOp.scanned

\* positive-area overlap of two rectangles with finite bounds
Overlaps(a, b) ==
    /\ FLt(FMax(a.sx, b.sx), FMin(a.ex, b.ex))
    /\ FLt(FMax(a.sy, b.sy), FMin(a.ey, b.ey))

\* a volume cell seen from a plane: its two transverse indices and its layer
Transverse(plane, c) ==
    CASE plane = "XY" -> <<c[1], c[2]>>
      [] plane = "ZY" -> <<c[3], c[2]>>
      [] plane = "ZX" -> <<c[3], c[1]>>

Layer(plane, c) ==
    CASE plane = "XY" -> c[3]
      [] plane = "ZY" -> c[1]
      [] plane = "ZX" -> c[2]

\* the grown footprint of volume cell c in the layer the cast f looks at
Footprint(f, c) ==
    LET o == PlaneOrigin(f.plane, origin)
        t == Transverse(f.plane, c)
    IN  get_cube_occlusion(F(t[1]), F(t[2]), F(DepthZ(f.depth, f.reverse_z)),
                           cast_float(o), f.slope_rect, f.reverse_z)

\* the occluded cells of the layer the cast f looks at
LayerOccluders(f) ==
    LET o == PlaneOrigin(f.plane, origin)
    IN  {c \in occluded : Layer(f.plane, c) = o[3] + DepthZ(f.depth, f.reverse_z)}

\* the transverse indices t are among those the scan loop visits
InScan(r, t) ==
    /\ r.s_ix <= t[1] /\ t[1] < r.e_ix
    /\ r.s_iy <= t[2] /\ t[2] < r.e_iy

Chebyshev(a, b) ==
    LET d(i) == Abs(a[i] - b[i])
    IN  IF d(1) >= d(2) /\ d(1) >= d(3) THEN d(1)
        ELSE IF d(2) >= d(3) THEN d(2) ELSE d(3)

InVolume(pos) ==
    \A i \in 1..3 : pos[i] >= 0 /\ pos[i] < VOLUME_DIM

---------------------------------------------------------------------------
(* C2 *)

\* C2 (as stated): no cast, launched by the driver or by a recursive call, is
\* ever invoked with depth > MAX_DEPTH.
C2_NoCastBeyondMaxDepth ==
    lastOp.op = "cast_light" => lastOp.frame.depth <= MAX_DEPTH

\* C2 (amended): no cast is invoked with depth > MAX_DEPTH + 1, and a cast
\* invoked with depth MAX_DEPTH + 1 returns at the guard: it scans nothing,
\* draws nothing, reports no cell and makes no recursive call.
C2_DepthBound ==
    [][ /\ \A f \in Pending : f.depth >= 1 /\ f.depth <= MAX_DEPTH + 1
        /\ (lastOp'.op = "cast_light" /\ pc = "recompute" /\ stack # <<>>) =>
              /\ lastOp'.frame = Head(stack)
              /\ lastOp'.frame.depth <= MAX_DEPTH + 1
              /\ lastOp'.frame.depth > MAX_DEPTH =>
                    /\ stack' = Tail(stack)
                    /\ visible' = visible
                    /\ drawn' = drawn ]_vars

C2_Witness ==
    lastOp.op = "cast_light" /\ lastOp.frame.depth = MAX_DEPTH + 1 /\ ~lastOp.scanned

---------------------------------------------------------------------------
(* C3 *)

---------------------------------------------------------------------------
(* C4 *)

\* C4 (as stated): with the same origin, a pass over a volume with one more
\* occluded cell visits as visible a subset of what the pass over the smaller
\* volume visited.
C4_Monotone ==
    ( /\ prevPass.n >= 1
      /\ lastPass.origin = prevPass.origin
      /\ prevPass.occluded \subseteq lastPass.occluded
      /\ Cardinality(lastPass.occluded \ prevPass.occluded) = 1 ) =>
        lastPass.visible \subseteq prevPass.visible

---------------------------------------------------------------------------
(* C5 *)

\* C5 (as stated): a pass whose origin cell is in the volume and unoccluded
\* visits the origin's own cell as visible.
C5_OriginVisible ==
    (lastOp.op = "return" /\ InVolume(origin) /\ origin \notin occluded) =>
        origin \in visible

---------------------------------------------------------------------------
(* C6 *)

\* C6: set_occluded with in-bounds coordinates sets exactly that cell and
\* reports nothing; with a coordinate out of bounds it reports an error and
\* leaves the volume unchanged; no step ever clears an occluded cell.
C6_MarkOccluded ==
    [][ /\ occluded \subseteq occluded'
        /\ lastOp'.op = "set_occluded" =>
              IF InVolume(lastOp'.pos)
              THEN occluded' = occluded \cup {lastOp'.pos} /\ errors' = errors
              ELSE occluded' = occluded /\ errors' = errors + 1 ]_vars

\* an in-bounds mark made after an out-of-bounds one was reported
C6_Witness ==
    /\ errors >= 1
    /\ lastOp.op = "set_occluded"
    /\ InVolume(lastOp.pos)
    /\ lastOp.pos \in occluded
    /\ \E sc \in Scenarios : lastOp.pos \in sc.marks \ sc.occluded

---------------------------------------------------------------------------
(* C7 *)

\* the top-level casts launched for one sector
LaunchedFor(k) ==
    {i \in 1..Len(launched) :
        /\ launched[i].slope_rect = SectorSlope(k)
        /\ launched[i].reverse_z = SectorReverse(k)
        /\ launched[i].plane = SectorPlane(k)}

\* C7 (as stated): a recomputation launches exactly one top-level cast for each
\* of the 24 sectors, each with depth 1, and none for any other combination.
C7_OneCastPerSector ==
    lastOp.op = "return" =>
        /\ \A k \in 0..23 : Cardinality(LaunchedFor(k)) = 1
        /\ \A i \in 1..Len(launched) :
              launched[i].depth = 1 /\ \E k \in 0..23 : i \in LaunchedFor(k)

\* C7 (amended): a recomputation launches exactly two top-level casts for each
\* of the 24 sectors, one with draw_debug false and one with draw_debug true,
\* each with depth 1, and none for any other combination.
C7_TwoCastsPerSector ==
    lastOp.op = "return" =>
        /\ \A k \in 0..23 :
              /\ Cardinality(LaunchedFor(k)) = 2
              /\ \A d \in BOOLEAN :
                    Cardinality({i \in LaunchedFor(k) : launched[i].draw_debug = d}) = 1
        /\ \A j, k \in 0..23 : j # k => LaunchedFor(j) \cap LaunchedFor(k) = {}
        /\ \A i \in 1..Len(launched) :
              launched[i].depth = 1 /\ \E k \in 0..23 : i \in LaunchedFor(k)

C7_Witness == lastOp.op = "return" /\ Len(launched) = 48

---------------------------------------------------------------------------
(* C8 *)

\* C8: from the entry of set_origin_and_recompute to its return no step
\* changes the occlusion volume or the stored origin, and a recursive call
\* carries its caller's plane, reverse_z and draw_debug, with depth one more.
C8_PureRead ==
    [][ pc = "recompute" =>
          /\ occluded' = occluded
          /\ origin' = origin
          /\ origin_float' = origin_float
          /\ (lastOp'.op = "cast_light" /\ lastOp'.scanned) =>
                /\ stack' = lastOp'.children \o Tail(stack)
                /\ \A i \in 1..Len(lastOp'.children) :
                      /\ lastOp'.children[i].plane = lastOp'.frame.plane
                      /\ lastOp'.children[i].reverse_z = lastOp'.frame.reverse_z
                      /\ lastOp'.children[i].draw_debug = lastOp'.frame.draw_debug
                      /\ lastOp'.children[i].depth = lastOp'.frame.depth + 1 ]_vars

C8_Witness ==
    /\ CastRan
    /\ lastOp.frame.depth >= 2
    /\ lastOp.frame.draw_debug
    /\ lastOp.occluding_rectangles # <<>>
    /\ Len(lastOp.children) >= 2

---------------------------------------------------------------------------
(* C9 *)

Bounds(r) == {r.sx, r.sy, r.ex, r.ey}

\* C9: no slope bound of any cast is zero, every coordinate of its projected
\* view rectangle is finite, and a remainder bound equal to the origin's
\* coordinate becomes an infinite slope bound.
C9_NoZeroSlope ==
    /\ \A f \in Pending \cup (IF lastOp.op = "cast_light" THEN {lastOp.frame} ELSE {}) :
          /\ \A s \in Bounds(f.slope_rect) : s # F(0) /\ ~IsNaN(s)
          /\ \A v \in Bounds(ViewRect(f.slope_rect, f.depth, f.reverse_z,
                                      cast_float(PlaneOrigin(f.plane, origin)))) :
                is_finite(v)
    /\ CastRan =>
          LET o == PlaneOrigin(lastOp.frame.plane, origin)
          IN  \A i \in 1..Len(lastOp.unblocked) :
                LET r == lastOp.unblocked[i]
                    s == lastOp.children[i].slope_rect
                    lo == IF lastOp.frame.reverse_z THEN <<s.ex, s.ey>> ELSE <<s.sx, s.sy>>
                    hi == IF lastOp.frame.reverse_z THEN <<s.sx, s.sy>> ELSE <<s.ex, s.ey>>
                IN  /\ r.sx = F(o[1]) <=> ~is_finite(lo[1])
                    /\ r.sy = F(o[2]) <=> ~is_finite(lo[2])
                    /\ r.ex = F(o[1]) <=> ~is_finite(hi[1])
                    /\ r.ey = F(o[2]) <=> ~is_finite(hi[2])

C9_Witness ==
    /\ CastRan
    /\ lastOp.frame.depth >= 2
    /\ lastOp.occluding_rectangles # <<>>
    /\ \E i \in 1..Len(lastOp.unblocked) :
          /\ lastOp.unblocked[i].sx = F(PlaneOrigin(lastOp.frame.plane, origin)[1])
          /\ ~is_finite(lastOp.children[i].slope_rect.sx)
          /\ is_finite(lastOp.children[i].slope_rect.ex)

---------------------------------------------------------------------------
(* C10 *)

\* C10 (as stated): the scanned index range of a cast contains every occluded
\* cell of its layer whose grown footprint overlaps the view rectangle, and
\* every remainder rectangle is free of every such footprint.
C10_ScanComplete ==
    CastRan =>
        \A c \in LayerOccluders(lastOp.frame) :
            LET fp == Footprint(lastOp.frame, c)
            IN  /\ Overlaps(fp, lastOp.view_rect) =>
                      InScan(lastOp.range, Transverse(lastOp.frame.plane, c))
                /\ \A i \in 1..Len(lastOp.unblocked) :
                      ~Overlaps(fp, lastOp.unblocked[i])

---------------------------------------------------------------------------
(* rectangle_minus_rectangles on its own: a view rectangle and a list of    *)
(* subtracted rectangles on an integer grid                                *)

\* the largest coordinate of the grid
MaxCoord == 3

\* the longest list of subtracted rectangles
MaxOccluders == 2

Coords == 0..MaxCoord

\* valid view rectangles
GridViews ==
    {Rect(F(a), F(b), F(c), F(d)) : a \in {0}, b \in {0}, c \in 1..MaxCoord, d \in 1..MaxCoord}

\* subtracted rectangles: valid ones and degenerate ones (zero width or height)
GridOccluders ==
    {r \in {Rect(F(a), F(b), F(c), F(d)) :
                a \in Coords, b \in Coords, c \in Coords, d \in Coords} :
        ~FLt(r.ex, r.sx) /\ ~FLt(r.ey, r.sy)}

InitRect ==
    /\ occluded = {}
    /\ script = [marks |-> {}, origins |-> {}, watch |-> {}]
    /\ origin = <<0, 0, 0>>
    /\ origin_float = <<F(0), F(0), F(0)>>
    /\ pc = "idle"
    /\ sector = 0
    /\ phase = 0
    /\ stack = <<>>
    /\ drawn = 0
    /\ errors = 0
    /\ visible = {}
    /\ launched = <<>>
    /\ lastOp = [op |-> "init"]
    /\ prevPass = NoPass
    /\ lastPass = NoPass
    /\ ops = 0
    /\ rV \in GridViews
    /\ rOs = <<>>
    /\ rRes = rectangle_minus_rectangles(rV, <<>>)

\* the difference is taken again with one more rectangle on the list
Subtract(o) ==
    /\ Len(rOs) < MaxOccluders
    /\ rOs' = Append(rOs, o)
    /\ rRes' = rectangle_minus_rectangles(rV, rOs')
    /\ UNCHANGED rV
    /\ UNCHANGED castVars

NextRect == \E o \in GridOccluders : Subtract(o)

SpecRect == InitRect /\ [][NextRect]_vars

---------------------------------------------------------------------------
(* C1 *)

\* the unit squares of the grid, each named by its lower corner
UnitSquares == {<<i, j>> : i \in -1..MaxCoord, j \in -1..MaxCoord}

\* the unit square u lies in the rectangle r (integer bounds)
Covers(r, u) ==
    /\ ~FLt(F(u[1]), r.sx) /\ ~FLt(r.ex, F(u[1] + 1))
    /\ ~FLt(F(u[2]), r.sy) /\ ~FLt(r.ey, F(u[2] + 1))

Area(r) == Cardinality({u \in UnitSquares : Covers(r, u)})

RECURSIVE SumArea(_)
SumArea(rs) == IF rs = <<>> THEN 0 ELSE Area(Head(rs)) + SumArea(Tail(rs))

\* C1: every returned rectangle is valid, lies inside V and overlaps no O_j;
\* the returned rectangles do not overlap one another; their union is V minus
\* the union of the O_j; and their areas add up to area(V) minus the area of
\* V's part under the O_j.
C1_ExactDifference ==
    LET Blocked == {u \in UnitSquares : \E j \in 1..Len(rOs) : Covers(rOs[j], u)}
        Inside == {u \in UnitSquares : Covers(rV, u)}
    IN  /\ \A i \in 1..Len(rRes) :
              /\ FLt(rRes[i].sx, rRes[i].ex) /\ FLt(rRes[i].sy, rRes[i].ey)
              /\ ~FLt(rRes[i].sx, rV.sx) /\ ~FLt(rV.ex, rRes[i].ex)
              /\ ~FLt(rRes[i].sy, rV.sy) /\ ~FLt(rV.ey, rRes[i].ey)
              /\ \A j \in 1..Len(rOs) : ~Overlaps(rRes[i], rOs[j])
              /\ \A k \in 1..Len(rRes) : k # i => ~Overlaps(rRes[i], rRes[k])
        /\ {u \in UnitSquares : \E i \in 1..Len(rRes) : Covers(rRes[i], u)}
              = Inside \ Blocked
        /\ SumArea(rRes) = Cardinality(Inside) - Cardinality(Inside \cap Blocked)

\* two rectangles subtracted, the second one splitting pieces the first left
C1_Witness ==
    /\ Len(rOs) = 2
    /\ Len(rRes) >= 5
    /\ \E j \in 1..2 : FLt(rV.sx, rOs[j].sx) /\ FLt(rOs[j].ex, rV.ex)
                       /\ FLt(rV.sy, rOs[j].sy) /\ FLt(rOs[j].ey, rV.ey)

====
